---- MODULE Spec2Model ----
(***************************************************************************)
(* Product-catalog REST service: the sign-in controller (loggin), the      *)
(* product controller (validate, getAll, getById, save, eliminate,         *)
(* actualize, providerProducts, sellProducts) and the Mongoose product     *)
(* models they use.                                                        *)
(*                                                                         *)
(* A handler is an async function.  Its synchronous stretches run          *)
(* atomically on the event loop; every `await` of a database call is a     *)
(* point where other requests run.  A handler with one database call is    *)
(* one action; a handler that loads a document and later saves or deletes  *)
(* it is two actions (…Load and …Save / …Delete).                          *)
(*                                                                         *)
(* Values.  JSON numbers are integers, JSON strings are strings, arrays    *)
(* are sequences and a Map is a function on strings.  An object is a       *)
(* function on its keys; an absent key is absent from the DOMAIN.          *)
(* numberCategory is the one field the handlers branch on after a cast,    *)
(* so a payload carries it as a typed JSON value and a document as the     *)
(* decimal numeral of the Number it was cast to.                           *)
(***************************************************************************)
EXTENDS Integers, Sequences, FiniteSets, TLC

VARIABLES
    now,        \* Date.now(), in milliseconds
    issued,     \* the tokens loggin handed out, each with the instant it did
    products,   \* the products collection: a set of documents
    nextOid,    \* the next ObjectId `new Model(...)` generates
    req,        \* per request slot: the request and the handler's position
    resp        \* per request slot: the response sent (status, body)

vars == <<now, issued, products, nextOid, req, resp>>

---------------------------------------------------------------------------
(* Bounds of the model *)

NReq == 2           \* request slots
MaxOid == 2         \* ObjectIds that can be generated (documents ever created)
MaxFine == 2        \* millisecond steps of the clock grid
MaxTokens == 1      \* tokens loggin hands out

Reqs == 1 .. NReq
ObjectIds == 1 .. (MaxOid + 1)   \* the last one is never generated

---------------------------------------------------------------------------
(* JSON helpers *)

Null == [null |-> TRUE]

Has(o, k) == k \in DOMAIN o

\* o with the keys of p added or replaced (object spread / $set)
Merge(o, p) ==
    [k \in (DOMAIN o) \cup (DOMAIN p) |-> IF k \in DOMAIN p THEN p[k] ELSE o[k]]

\* o without the keys in ks
Without(o, ks) == [k \in (DOMAIN o) \ ks |-> o[k]]

\* o restricted to the keys in ks
Only(o, ks) == [k \in (DOMAIN o) \cap ks |-> o[k]]

EmptyObject == [k \in {} |-> Null]

---------------------------------------------------------------------------
(* jsonwebtoken: sign and verify *)

key == "SECRET"

\* 60 * 30000 ms added to Date.now() for `exp`
TokenLifetime == 60 * 30000

\* HMAC over the payload: only the holder of k produces it
Signature(k, payload) == [key |-> k, over |-> payload]

NoPayload == [sub |-> "", password |-> "", exp |-> 0, iat |-> 0]

\* A space-separated part of a header that is not a three-part JWT
NotAJwt == [jwt |-> FALSE, payload |-> NoPayload, sig |-> Signature("", NoPayload)]

\* jwt.sign(payload, k): adds iat (seconds) and signs
JwtSign(payload, k, t) ==
    LET full == Merge(payload, [iat |-> t \div 1000])
    IN  [jwt |-> TRUE, payload |-> full, sig |-> Signature(k, full)]

\* jwt.verify(token, k) at clock t; token is a header part or Null (undefined).
\* The library reads `exp` in seconds: it throws when floor(now/1000) >= exp.
JwtVerify(token, k, t) ==
    IF token = Null
    THEN [ok |-> FALSE, message |-> "jwt must be provided", payload |-> NoPayload]
    ELSE IF ~token.jwt
    THEN [ok |-> FALSE, message |-> "jwt malformed", payload |-> NoPayload]
    ELSE IF token.sig # Signature(k, token.payload)
    THEN [ok |-> FALSE, message |-> "invalid signature", payload |-> NoPayload]
    ELSE IF (t \div 1000) >= token.payload.exp
    THEN [ok |-> FALSE, message |-> "jwt expired", payload |-> NoPayload]
    ELSE [ok |-> TRUE, message |-> "", payload |-> token.payload]

---------------------------------------------------------------------------
(* The Authorization header and validate *)

\* req.headers.authorization: undefined, or a string seen as its
\* space-separated parts
NoHeader == [present |-> FALSE, parts |-> <<>>]
Header(parts) == [present |-> TRUE, parts |-> parts]
Bearer(token) == Header(<<NotAJwt, token>>)

\* aux.split(" ")[1]
SecondPart(aux) == IF Len(aux.parts) >= 2 THEN aux.parts[2] ELSE Null

SessionExpired == "Session Expired"
NotLoggedIn ==
    "The session has not been logged in or the token has not been entered."

\* validate with >= for >: expired at the very instant of `exp`
validateAtTheInstant(aux, t) ==
    IF aux.present
    THEN LET v == JwtVerify(SecondPart(aux), key, t)
         IN  IF ~v.ok
             THEN [kind |-> "throw", text |-> v.message]
             ELSE IF t >= v.payload.exp
                  THEN [kind |-> "string", text |-> SessionExpired]
                  ELSE [kind |-> "true", text |-> ""]
    ELSE [kind |-> "string", text |-> NotLoggedIn]

\* What validate does: returns true, returns a reason string, or throws
\* (the error jwt.verify threw)
validate(aux, t) ==
    IF aux.present
    THEN LET v == JwtVerify(SecondPart(aux), key, t)
         IN  IF ~v.ok
             THEN [kind |-> "throw", text |-> v.message]
             ELSE IF t > v.payload.exp
                  THEN [kind |-> "string", text |-> SessionExpired]
                  ELSE [kind |-> "true", text |-> ""]
    ELSE [kind |-> "string", text |-> NotLoggedIn]

\* valid == true
IsTrue(valid) == valid.kind = "true"

---------------------------------------------------------------------------
(* Mongoose: the product schemas (models/product.mjs) *)

\* The base model and its four discriminators
BaseModel == "product"
Discriminators == {"Electronics", "Food", "Automotive", "Clothing"}
Models == {BaseModel} \cup Discriminators

BasePaths ==
    {"id", "name", "description", "category", "numberCategory", "price", "stock"}

\* The paths each discriminator schema adds
ExtraPaths(model) ==
    CASE model = "Electronics" -> {"features", "warrantyYears"}
      [] model = "Food" ->
            {"ingredients", "weightOrVolume", "flavors", "expirationDays"}
      [] model = "Automotive" -> {"specs", "warrantyYears", "modelYear"}
      [] model = "Clothing" -> {"sizesAvaiable", "colors", "material"}
      [] OTHER -> {}

Paths(model) == BasePaths \cup ExtraPaths(model)

\* required: true
RequiredPaths(model) ==
    {"id", "name", "category", "numberCategory", "price"} \cup
    (CASE model = "Electronics" -> {"features"}
       [] model = "Food" -> {"ingredients", "weightOrVolume"}
       [] model = "Automotive" -> {"specs", "modelYear"}
       [] model = "Clothing" -> {"sizesAvaiable", "colors", "material"}
       [] OTHER -> {})

StringPaths == {"name", "description", "category", "weightOrVolume", "material"}

\* The defaults with `default: 10` for the stock
DefaultsStockTen(model) ==
    Merge([description |-> "Sin descripcion", stock |-> 10],
          CASE model = "Electronics" -> [features |-> <<>>, warrantyYears |-> 2]
            [] model = "Food" ->
                  [ingredients |-> <<>>, flavors |-> <<"Original">>,
                   expirationDays |-> 30]
            [] model = "Automotive" -> [warrantyYears |-> 2]
            [] model = "Clothing" -> [sizesAvaiable |-> <<>>, colors |-> <<>>]
            [] OTHER -> EmptyObject)

\* default: ..., and the empty array every array path starts with
Defaults(model) ==
    Merge([description |-> "Sin descripcion", stock |-> 50],
          CASE model = "Electronics" -> [features |-> <<>>, warrantyYears |-> 2]
            [] model = "Food" ->
                  [ingredients |-> <<>>, flavors |-> <<"Original">>,
                   expirationDays |-> 30]
            [] model = "Automotive" -> [warrantyYears |-> 2]
            [] model = "Clothing" -> [sizesAvaiable |-> <<>>, colors |-> <<>>]
            [] OTHER -> EmptyObject)

---------------------------------------------------------------------------
(* Mongoose: casting, construction, validation *)

\* A JSON value of the payload's numberCategory
JsonNumber(text) == [type |-> "number", text |-> text]
JsonString(text) == [type |-> "string", text |-> text]
JsonBoolean(text) == [type |-> "boolean", text |-> text]

\* The numerals Number(text) reads as a number (all others are NaN)
NumericTexts == {"0", "1", "2", "3", "4", "5", "2.5"}

\* Mongoose's Number cast: ok with the numeral, null, or a CastError
castNumber(v) ==
    CASE v.type = "number" -> [ok |-> TRUE, null |-> FALSE, num |-> v.text]
      [] v.type = "boolean" ->
            [ok |-> TRUE, null |-> FALSE,
             num |-> IF v.text = "true" THEN "1" ELSE "0"]
      [] v.type = "string" /\ v.text = "" ->
            [ok |-> TRUE, null |-> TRUE, num |-> ""]
      [] v.type = "string" /\ v.text \in NumericTexts ->
            [ok |-> TRUE, null |-> FALSE, num |-> v.text]
      [] OTHER -> [ok |-> FALSE, null |-> FALSE, num |-> ""]

\* The payload keys a model keeps (strict mode drops the others) and can cast
KeptKeys(model, body) ==
    {k \in (DOMAIN body) \cap Paths(model) :
        k = "numberCategory" =>
            castNumber(body[k]).ok /\ ~castNumber(body[k]).null}

\* new Model(body): an instance with a fresh _id, the discriminator key,
\* the defaults of the paths the payload leaves out and the cast payload;
\* a failed cast is remembered for validation
Construct(model, body, oid) ==
    LET kept == KeptKeys(model, body)
        given == [k \in kept |->
                    IF k = "numberCategory" THEN castNumber(body[k]).num
                    ELSE body[k]]
        ident == IF model = BaseModel THEN [_id |-> oid]
                 ELSE [_id |-> oid, __t |-> model]
    IN  [_doc |-> Merge(ident, Merge(Defaults(model), given)),
         castErrors |-> {k \in (DOMAIN body) \cap Paths(model) :
                            k = "numberCategory" /\ ~castNumber(body[k]).ok}]

\* The model a stored document is hydrated as
ModelOf(doc) == IF Has(doc, "__t") THEN doc["__t"] ELSE BaseModel

\* A document read from the collection
Hydrate(doc) == [_doc |-> doc, castErrors |-> {}]

\* The required validator of a path: a non-empty string for a String path,
\* any non-null value otherwise (an empty array passes)
CheckRequired(doc, path) ==
    /\ Has(doc, path)
    /\ path \in StringPaths => doc[path] # ""

\* The paths validation rejects
InvalidPaths(inst) ==
    inst.castErrors \cup
    {p \in RequiredPaths(ModelOf(inst._doc)) : ~CheckRequired(inst._doc, p)}

---------------------------------------------------------------------------
(* Mongoose and the collection: find, save, deleteOne *)

\* The _id a request parameter casts to: a 24-hex string casts, anything
\* else (such as a numeral) is a CastError
OidParam(n) == [objectId |-> TRUE, n |-> n]
NumeralParam(n) == [objectId |-> FALSE, n |-> n]
NoParam == NumeralParam(0)

\* Model.find({}): every document of the collection
Find(coll) == coll

\* Model.findById(oid) for an _id that cast
FindById(coll, oid) ==
    IF \E d \in coll : d["_id"] = oid
    THEN CHOOSE d \in coll : d["_id"] = oid
    ELSE Null

Failed(message, coll) ==
    [ok |-> FALSE, message |-> message, coll |-> coll, result |-> Null]

\* save() of a new instance when the schema's `unique: true` on id is
\* missing: only _id is unique
SaveNewNoIndex(inst, coll) ==
    IF InvalidPaths(inst) # {}
    THEN Failed("ValidationError", coll)
    ELSE IF \E d \in coll : d["_id"] = inst._doc["_id"]
    THEN Failed("E11000 duplicate key error", coll)
    ELSE [ok |-> TRUE, message |-> "", coll |-> coll \cup {inst._doc},
          result |-> inst._doc]

\* save() of a new instance: validate, then insertOne under the unique
\* indexes on _id and id; resolves to the document
SaveNew(inst, coll) ==
    IF InvalidPaths(inst) # {}
    THEN Failed("ValidationError", coll)
    ELSE IF \E d \in coll : d["_id"] = inst._doc["_id"] \/ d["id"] = inst._doc["id"]
    THEN Failed("E11000 duplicate key error", coll)
    ELSE [ok |-> TRUE, message |-> "", coll |-> coll \cup {inst._doc},
          result |-> inst._doc]

\* save() of a loaded instance with updateMany({}, ...) for
\* updateOne({_id}, ...): the modified paths are written to every document
SaveLoadedEvery(loaded, inst, coll) ==
    LET doc == inst._doc
        stored == FindById(coll, doc["_id"])
        set == {k \in DOMAIN doc : ~Has(loaded, k) \/ loaded[k] # doc[k]}
        unset == (DOMAIN loaded) \ (DOMAIN doc)
    IN  IF InvalidPaths(inst) # {}
        THEN Failed("ValidationError", coll)
        ELSE IF stored = Null
        THEN Failed("DocumentNotFoundError", coll)
        ELSE [ok |-> TRUE, message |-> "",
              coll |-> {Without(Merge(d, Only(doc, set)), unset) : d \in coll},
              result |-> doc]

\* save() of a loaded instance as an upsert: when no document matches the
\* _id, the in-memory document is inserted
SaveLoadedUpsert(loaded, inst, coll) ==
    LET doc == inst._doc
        stored == FindById(coll, doc["_id"])
        set == {k \in DOMAIN doc : ~Has(loaded, k) \/ loaded[k] # doc[k]}
        unset == (DOMAIN loaded) \ (DOMAIN doc)
        written == IF stored = Null THEN doc
                   ELSE Without(Merge(stored, Only(doc, set)), unset)
    IN  IF InvalidPaths(inst) # {}
        THEN Failed("ValidationError", coll)
        ELSE IF \E d \in coll : d["_id"] # doc["_id"] /\ d["id"] = written["id"]
        THEN Failed("E11000 duplicate key error", coll)
        ELSE [ok |-> TRUE, message |-> "",
              coll |-> (coll \ {stored}) \cup {written}, result |-> doc]

\* save() of an instance that was loaded as `loaded` and then modified:
\* validate, then updateOne({_id}, {$set, $unset}) with the modified paths
\* only; no matching document is a DocumentNotFoundError.  Resolves to the
\* in-memory document.
SaveLoaded(loaded, inst, coll) ==
    LET doc == inst._doc
        stored == FindById(coll, doc["_id"])
        set == {k \in DOMAIN doc : ~Has(loaded, k) \/ loaded[k] # doc[k]}
        unset == (DOMAIN loaded) \ (DOMAIN doc)
        written == Without(Merge(stored, Only(doc, set)), unset)
    IN  IF InvalidPaths(inst) # {}
        THEN Failed("ValidationError", coll)
        ELSE IF stored = Null
        THEN Failed("DocumentNotFoundError", coll)
        ELSE IF \E d \in coll : d["_id"] # doc["_id"] /\ d["id"] = written["id"]
        THEN Failed("E11000 duplicate key error", coll)
        ELSE [ok |-> TRUE, message |-> "",
              coll |-> (coll \ {stored}) \cup {written}, result |-> doc]

\* deleteOne with an empty filter: the first document of the collection goes
DeleteOneUnfiltered(doc, coll) ==
    LET stored == IF coll = {} THEN Null ELSE CHOOSE d \in coll : TRUE
    IN  [coll |-> coll \ {stored},
         result |-> [acknowledged |-> TRUE,
                     deletedCount |-> IF stored = Null THEN 0 ELSE 1]]

\* deleteOne resolving to a count of 1 whether or not a document matched
DeleteOneCountsOne(doc, coll) ==
    LET stored == FindById(coll, doc["_id"])
    IN  [coll |-> coll \ {stored},
         result |-> [acknowledged |-> TRUE, deletedCount |-> 1]]

\* doc.deleteOne(): deleteOne({_id}); resolves to the driver's result
DeleteOne(doc, coll) ==
    LET stored == FindById(coll, doc["_id"])
    IN  [coll |-> coll \ {stored},
         result |-> [acknowledged |-> TRUE,
                     deletedCount |-> IF stored = Null THEN 0 ELSE 1]]

\* product.overwrite(productN): every key of product's own _doc except _id
\* and the discriminator key is set to productN[key] (unset when productN
\* has none); the keys productN alone has are not among productN's own
\* enumerable keys and are not copied
Overwrite(product, productN) ==
    LET kept == {"_id", "__t"}
        keys == (DOMAIN product._doc) \ kept
    IN  [_doc |-> Merge(Only(product._doc, kept), Only(productN._doc, keys)),
         castErrors |-> {}]

---------------------------------------------------------------------------
(* Responses *)

Response(status, body) == [status |-> status, body |-> body]
NoResponse == Response(0, EmptyObject)

\* res.status(500).json({state: false, message: err.message})
Caught(message) == Response(500, [state |-> FALSE, message |-> message])

\* res.status(401).json({error: valid})
Unauthorized(valid) == Response(401, [error |-> valid.text])

\* res.status(500).json({state: false, error: err.message}) of getById
CaughtAsError(message) == Response(500, [state |-> FALSE, error |-> message])

NotFound(message) ==
    Response(404, [state |-> FALSE, message |-> message, data |-> Null])

---------------------------------------------------------------------------
(* Requests *)

\* A request slot: the request (op, hdr, id, body), the instant the handler
\* started, where the handler is (idle, loaded: awaiting its write, done:
\* answered) and the document findById resolved to
Request(op, hdr, id, body, at, pc, loaded) ==
    [op |-> op, hdr |-> hdr, id |-> id, body |-> body, at |-> at, pc |-> pc,
     loaded |-> loaded]

Idle == Request("none", NoHeader, NoParam, EmptyObject, 0, "idle", Null)

\* The handler of slot r answers and returns
Reply(r, op, hdr, id, body, loaded, response) ==
    /\ req' = [req EXCEPT ![r] =
                  Request(op, hdr, id, body,
                          IF req[r].pc = "idle" THEN now ELSE req[r].at,
                          "done", loaded)]
    /\ resp' = [resp EXCEPT ![r] = response]

\* The handler of slot r awaits findById, which resolves to `loaded`
Await(r, op, hdr, id, body, loaded) ==
    /\ req' = [req EXCEPT ![r] = Request(op, hdr, id, body, now, "loaded", loaded)]
    /\ resp' = resp

\* Load with `if (valid)` for `if (valid == true)`: a reason string is truthy
LoadIfTruthy(r, op, hdr, id, body) ==
    /\ req[r].pc = "idle"
    /\ LET valid == validate(hdr, now)
       IN  IF valid.kind = "throw"
           THEN Reply(r, op, hdr, id, body, Null, Caught(valid.text))
           ELSE IF ~id.objectId
           THEN Reply(r, op, hdr, id, body, Null, Caught("CastError"))
           ELSE Await(r, op, hdr, id, body, FindById(products, id.n))
    /\ UNCHANGED <<now, issued, products, nextOid>>

\* The part the four load-then-write handlers share: validate, then
\* findById.  A throw of validate or of the _id cast is caught (500); a
\* reason string is a 401.
Load(r, op, hdr, id, body) ==
    /\ req[r].pc = "idle"
    /\ LET valid == validate(hdr, now)
       IN  IF valid.kind = "throw"
           THEN Reply(r, op, hdr, id, body, Null, Caught(valid.text))
           ELSE IF ~IsTrue(valid)
           THEN Reply(r, op, hdr, id, body, Null, Unauthorized(valid))
           ELSE IF ~id.objectId
           THEN Reply(r, op, hdr, id, body, Null, Caught("CastError"))
           ELSE Await(r, op, hdr, id, body, FindById(products, id.n))
    /\ UNCHANGED <<now, issued, products, nextOid>>

---------------------------------------------------------------------------
(* The sign-in controller *)

\* The users collection: read, never written
Users == {[mail |-> "user@mail", password |-> "secret"]}

\* findOne with an empty filter: the first user, whatever the mail
FindUserAny(mail) == CHOOSE u \in Users : TRUE

FindUser(mail) ==
    IF \E u \in Users : u.mail = mail
    THEN CHOOSE u \in Users : u.mail = mail
    ELSE Null

\* The token loggin signs at clock t
IssueToken(password, t) ==
    JwtSign([sub |-> "Token", password |-> password, exp |-> t + TokenLifetime],
            key, t)

loggin(r, mail, password) ==
    /\ req[r].pc = "idle"
    /\ LET userlog == FindUser(mail)
           body == [mail |-> mail, password |-> password]
           token == IssueToken(password, now)
       IN  IF userlog # Null
           THEN IF userlog.password = password
                THEN /\ Cardinality(issued) < MaxTokens
                     /\ issued' = issued \cup {[token |-> token, at |-> now]}
                     /\ Reply(r, "loggin", NoHeader, NoParam, body, Null,
                              Response(200, [state |-> TRUE,
                                             message |-> "Logged In",
                                             token |-> token]))
                ELSE /\ issued' = issued
                     /\ Reply(r, "loggin", NoHeader, NoParam, body, Null,
                              Response(404, [state |-> FALSE,
                                             message |-> "Password is Wrong",
                                             token |-> Null]))
           ELSE /\ issued' = issued
                /\ Reply(r, "loggin", NoHeader, NoParam, body, Null,
                         Response(403, [state |-> FALSE,
                                        message |-> "User Don't Exist",
                                        token |-> Null]))
    /\ UNCHANGED <<now, products, nextOid>>

---------------------------------------------------------------------------
(* The product controller: reads *)

\* getAll behind the gate, like the handlers that write
getAllGated(r, hdr) ==
    /\ req[r].pc = "idle"
    /\ LET valid == validate(hdr, now)
       IN  IF valid.kind = "throw"
           THEN Reply(r, "getAll", hdr, NoParam, EmptyObject, Null,
                      Caught(valid.text))
           ELSE IF ~IsTrue(valid)
           THEN Reply(r, "getAll", hdr, NoParam, EmptyObject, Null,
                      Unauthorized(valid))
           ELSE Reply(r, "getAll", hdr, NoParam, EmptyObject, Null,
                      Response(200, [state |-> TRUE,
                                     data |-> [items |-> Find(products)]]))
    /\ UNCHANGED <<now, issued, products, nextOid>>

getAll(r, hdr) ==
    /\ req[r].pc = "idle"
    /\ Reply(r, "getAll", hdr, NoParam, EmptyObject, Null,
             Response(200, [state |-> TRUE, data |-> [items |-> Find(products)]]))
    /\ UNCHANGED <<now, issued, products, nextOid>>

getById(r, hdr, id) ==
    /\ req[r].pc = "idle"
    /\ IF ~id.objectId
       THEN Reply(r, "getById", hdr, id, EmptyObject, Null,
                  CaughtAsError("CastError"))
       ELSE Reply(r, "getById", hdr, id, EmptyObject, Null,
                  Response(200, [state |-> TRUE,
                                 data |-> FindById(products, id.n)]))
    /\ UNCHANGED <<now, issued, products, nextOid>>

---------------------------------------------------------------------------
(* The product controller: create *)

\* The numeral the switch compares with a case label
Discriminant(inst) ==
    IF Has(inst._doc, "numberCategory") THEN inst._doc["numberCategory"] ELSE ""

\* save, lines 84-103: new Product(req.body), then the switch
saveResolve(body, oid) ==
    LET product == Construct(BaseModel, body, oid)
        numberCategory == Discriminant(product)
    IN  CASE numberCategory = "1" -> Construct("Electronics", body, oid)
          [] numberCategory = "2" -> Construct("Food", body, oid)
          [] numberCategory = "3" -> Construct("Automotive", body, oid)
          [] numberCategory = "4" -> Construct("Clothing", body, oid)
          [] OTHER -> product

save(r, hdr, body) ==
    /\ req[r].pc = "idle"
    /\ LET valid == validate(hdr, now)
           product == saveResolve(body, nextOid)
           result == SaveNew(product, products)
       IN  IF valid.kind = "throw"
           THEN /\ Reply(r, "save", hdr, NoParam, body, Null, Caught(valid.text))
                /\ UNCHANGED <<products, nextOid>>
           ELSE IF ~IsTrue(valid)
           THEN /\ Reply(r, "save", hdr, NoParam, body, Null, Unauthorized(valid))
                /\ UNCHANGED <<products, nextOid>>
           ELSE /\ nextOid <= MaxOid
                /\ nextOid' = IF result.ok THEN nextOid + 1 ELSE nextOid
                /\ products' = result.coll
                /\ IF result.ok
                   THEN Reply(r, "save", hdr, NoParam, body, Null,
                              Response(201, [state |-> TRUE,
                                             data |-> result.result]))
                   ELSE Reply(r, "save", hdr, NoParam, body, Null,
                              Caught(result.message))
    /\ UNCHANGED <<now, issued>>

---------------------------------------------------------------------------
(* The product controller: delete *)

eliminateLoad(r, hdr, id) == Load(r, "eliminate", hdr, id, EmptyObject)

eliminateDelete(r) ==
    /\ req[r].pc = "loaded"
    /\ req[r].op = "eliminate"
    /\ LET q == req[r]
           product == q.loaded
           result == DeleteOne(product, products)
       IN  IF product # Null
           THEN /\ products' = result.coll
                /\ Reply(r, q.op, q.hdr, q.id, q.body, product,
                         Response(200, [state |-> TRUE, data |-> result.result]))
           ELSE /\ products' = products
                /\ Reply(r, q.op, q.hdr, q.id, q.body, product,
                         NotFound("ID Company Not Found"))
    /\ UNCHANGED <<now, issued, nextOid>>

---------------------------------------------------------------------------
(* The product controller: update *)

\* The switch of actualize with the break of case 3 missing
actualizeResolveFallThrough(body, oid) ==
    LET productN == Construct(BaseModel, body, oid)
        numberCategory == Discriminant(productN)
    IN  CASE numberCategory = "1" -> Construct("Electronics", body, oid)
          [] numberCategory = "2" -> Construct("Food", body, oid)
          [] numberCategory = "3" -> Construct("Clothing", body, oid)
          [] numberCategory = "4" -> Construct("Clothing", body, oid)
          [] OTHER -> productN

\* actualize, lines 149-169: new Product(req.body), then the switch
actualizeResolve(body, oid) ==
    LET productN == Construct(BaseModel, body, oid)
        numberCategory == Discriminant(productN)
    IN  CASE numberCategory = "1" -> Construct("Electronics", body, oid)
          [] numberCategory = "2" -> Construct("Food", body, oid)
          [] numberCategory = "3" -> Construct("Automotive", body, oid)
          [] numberCategory = "4" -> Construct("Clothing", body, oid)
          [] OTHER -> productN

\* actualizeSave with `await productN.save()` for the overwrite and save of
\* the loaded product
actualizeSaveInstance(r) ==
    /\ req[r].pc = "loaded"
    /\ req[r].op = "actualize"
    /\ LET q == req[r]
           product == q.loaded
           productN == actualizeResolve(q.body, nextOid)
           result == SaveNew(productN, products)
       IN  IF product # Null
           THEN /\ products' = result.coll
                /\ IF result.ok
                   THEN Reply(r, q.op, q.hdr, q.id, q.body, product,
                              Response(201, [state |-> TRUE,
                                             data |-> result.result]))
                   ELSE Reply(r, q.op, q.hdr, q.id, q.body, product,
                              Caught(result.message))
           ELSE /\ products' = products
                /\ Reply(r, q.op, q.hdr, q.id, q.body, product,
                         NotFound("ID Company Not Found"))
    /\ UNCHANGED <<now, issued, nextOid>>

actualizeLoad(r, hdr, id, body) == Load(r, "actualize", hdr, id, body)

actualizeSave(r) ==
    /\ req[r].pc = "loaded"
    /\ req[r].op = "actualize"
    /\ LET q == req[r]
           product == q.loaded
           productN == actualizeResolve(q.body, nextOid)
           result == SaveLoaded(product, Overwrite(Hydrate(product), productN),
                                products)
       IN  IF product # Null
           THEN /\ products' = result.coll
                /\ IF result.ok
                   THEN Reply(r, q.op, q.hdr, q.id, q.body, product,
                              Response(201, [state |-> TRUE,
                                             data |-> result.result]))
                   ELSE Reply(r, q.op, q.hdr, q.id, q.body, product,
                              Caught(result.message))
           ELSE /\ products' = products
                /\ Reply(r, q.op, q.hdr, q.id, q.body, product,
                         NotFound("ID Company Not Found"))
    /\ UNCHANGED <<now, issued, nextOid>>

---------------------------------------------------------------------------
(* The product controller: restock and sell *)

\* A Number is an IEEE double.  Integers below 2^53 are Numbers and their
\* sums and differences are exact.  From 2^53 to 2^54 only the even
\* integers are Numbers, and a result between two of them is rounded to the
\* nearer, a tie to the one with the even mantissa (a multiple of 4 from
\* 2^53).  The integer Big + k stands for 2^53 + k; no Number from Big to
\* below 2^53, and none from 2^54 on, is used.
Big == 1000000000

NumberRound(x) ==
    IF x < Big THEN x
    ELSE LET k == x - Big
         IN  IF k % 2 = 0 THEN x
             ELSE IF (k + 1) % 4 = 0 THEN x + 1 ELSE x - 1

\* a + b and a - b of two Numbers
NumberAdd(a, b) == NumberRound(a + b)
NumberSub(a, b) == NumberRound(a - b)

\* product.stock = value; a NaN (a quantity that is missing from the body)
\* does not cast and fails the validation of the next save
SetStock(product, defined, value) ==
    IF defined
    THEN [_doc |-> [product EXCEPT !["stock"] = value], castErrors |-> {}]
    ELSE [_doc |-> product, castErrors |-> {"stock"}]

\* providerProductsSave with the floor test of sellProducts
providerProductsSaveFloored(r) ==
    /\ req[r].pc = "loaded"
    /\ req[r].op = "providerProducts"
    /\ LET q == req[r]
           product == q.loaded
           defined == Has(q.body, "nStock")
           modified == SetStock(product, defined,
                                NumberAdd(product["stock"], q.body["nStock"]))
           result == SaveLoaded(product, modified, products)
       IN  IF product # Null
           THEN IF defined /\ NumberAdd(product["stock"], q.body["nStock"]) < 5
                THEN /\ products' = products
                     /\ Reply(r, q.op, q.hdr, q.id, q.body, product,
                              Response(400, [state |-> FALSE,
                                             message |-> "Stock is less than 5",
                                             data |-> Null]))
                ELSE /\ products' = result.coll
                     /\ IF result.ok
                        THEN Reply(r, q.op, q.hdr, q.id, q.body, product,
                                   Response(201, [state |-> TRUE,
                                                  data |-> result.result]))
                        ELSE Reply(r, q.op, q.hdr, q.id, q.body, product,
                                   Caught(result.message))
           ELSE /\ products' = products
                /\ Reply(r, q.op, q.hdr, q.id, q.body, product,
                         NotFound("ID Product Not Found"))
    /\ UNCHANGED <<now, issued, nextOid>>

providerProductsLoad(r, hdr, id, body) ==
    Load(r, "providerProducts", hdr, id, body)

providerProductsSave(r) ==
    /\ req[r].pc = "loaded"
    /\ req[r].op = "providerProducts"
    /\ LET q == req[r]
           product == q.loaded
           defined == Has(q.body, "nStock")
           modified == SetStock(product, defined,
                                NumberAdd(product["stock"], q.body["nStock"]))
           result == SaveLoaded(product, modified, products)
       IN  IF product # Null
           THEN /\ products' = result.coll
                /\ IF result.ok
                   THEN Reply(r, q.op, q.hdr, q.id, q.body, product,
                              Response(201, [state |-> TRUE,
                                             data |-> result.result]))
                   ELSE Reply(r, q.op, q.hdr, q.id, q.body, product,
                              Caught(result.message))
           ELSE /\ products' = products
                /\ Reply(r, q.op, q.hdr, q.id, q.body, product,
                         NotFound("ID Product Not Found"))
    /\ UNCHANGED <<now, issued, nextOid>>

\* The floor test with <= for <
NotMoreThanFive(product, body) ==
    Has(body, "sStock") /\ NumberSub(product["stock"], body["sStock"]) <= 5

\* (product.stock - sStock) < 5; a comparison with NaN is false
LessThanFive(product, body) ==
    Has(body, "sStock") /\ NumberSub(product["stock"], body["sStock"]) < 5

sellProductsLoad(r, hdr, id, body) == Load(r, "sellProducts", hdr, id, body)

sellProductsSave(r) ==
    /\ req[r].pc = "loaded"
    /\ req[r].op = "sellProducts"
    /\ LET q == req[r]
           product == q.loaded
           defined == Has(q.body, "sStock")
           modified == SetStock(product, defined,
                                NumberSub(product["stock"], q.body["sStock"]))
           result == SaveLoaded(product, modified, products)
       IN  IF product # Null
           THEN IF LessThanFive(product, q.body)
                THEN /\ products' = products
                     /\ Reply(r, q.op, q.hdr, q.id, q.body, product,
                              Response(400, [state |-> FALSE,
                                             message |-> "Stock is less than 5",
                                             data |-> Null]))
                ELSE /\ products' = result.coll
                     /\ IF result.ok
                        THEN Reply(r, q.op, q.hdr, q.id, q.body, product,
                                   Response(201, [state |-> TRUE,
                                                  data |-> result.result]))
                        ELSE Reply(r, q.op, q.hdr, q.id, q.body, product,
                                   Caught(result.message))
           ELSE /\ products' = products
                /\ Reply(r, q.op, q.hdr, q.id, q.body, product,
                         NotFound("ID Product Not Found"))
    /\ UNCHANGED <<now, issued, nextOid>>

---------------------------------------------------------------------------
(* The handlers when a call to the database is rejected *)

\* The message of the error a rejected database call carries
StorageFailure == "MongoNetworkError"

\* A rejection that leaves an async handler is not seen by Express 4, and no
\* response is sent; Express 5 hands it to its default error handler, which
\* answers 500 with a page of its own
Escapes == {"unanswered", "framework"}

FrameworkError == Response(500, [html |-> "Internal Server Error"])

\* loggin when User.findOne is rejected: the await is outside the try
logginLookupFails(r, mail, password, escape) ==
    /\ req[r].pc = "idle"
    /\ LET body == [mail |-> mail, password |-> password]
       IN  IF escape = "framework"
           THEN Reply(r, "loggin", NoHeader, NoParam, body, Null, FrameworkError)
           ELSE /\ req' = [req EXCEPT ![r] =
                              Request("loggin", NoHeader, NoParam, body, now,
                                      "rejected", Null)]
                /\ resp' = resp
    /\ UNCHANGED <<now, issued, products, nextOid>>

\* getAll when Product.find is rejected: the catch reads err.mesagge, which
\* is undefined, and JSON leaves the key out
getAllFails(r, hdr) ==
    /\ req[r].pc = "idle"
    /\ Reply(r, "getAll", hdr, NoParam, EmptyObject, Null,
             Response(500, [state |-> FALSE]))
    /\ UNCHANGED <<now, issued, products, nextOid>>

\* getById when Product.findById is rejected
getByIdFails(r, hdr, id) ==
    /\ req[r].pc = "idle"
    /\ Reply(r, "getById", hdr, id, EmptyObject, Null,
             CaughtAsError(IF id.objectId THEN StorageFailure ELSE "CastError"))
    /\ UNCHANGED <<now, issued, products, nextOid>>

\* save when the insert of product.save() is rejected (validation comes
\* before the insert)
saveFails(r, hdr, body) ==
    /\ req[r].pc = "idle"
    /\ LET valid == validate(hdr, now)
           product == saveResolve(body, nextOid)
       IN  IF valid.kind = "throw"
           THEN Reply(r, "save", hdr, NoParam, body, Null, Caught(valid.text))
           ELSE IF ~IsTrue(valid)
           THEN Reply(r, "save", hdr, NoParam, body, Null, Unauthorized(valid))
           ELSE IF InvalidPaths(product) # {}
           THEN Reply(r, "save", hdr, NoParam, body, Null, Caught("ValidationError"))
           ELSE Reply(r, "save", hdr, NoParam, body, Null, Caught(StorageFailure))
    /\ UNCHANGED <<now, issued, products, nextOid>>

\* The part the four load-then-write handlers share, when Product.findById
\* is rejected
LoadFails(r, op, hdr, id, body) ==
    /\ req[r].pc = "idle"
    /\ LET valid == validate(hdr, now)
       IN  IF valid.kind = "throw"
           THEN Reply(r, op, hdr, id, body, Null, Caught(valid.text))
           ELSE IF ~IsTrue(valid)
           THEN Reply(r, op, hdr, id, body, Null, Unauthorized(valid))
           ELSE IF ~id.objectId
           THEN Reply(r, op, hdr, id, body, Null, Caught("CastError"))
           ELSE Reply(r, op, hdr, id, body, Null, Caught(StorageFailure))
    /\ UNCHANGED <<now, issued, products, nextOid>>

\* The instance a handler that found its product is about to save
Written(q) ==
    CASE q.op = "actualize" ->
            Overwrite(Hydrate(q.loaded), actualizeResolve(q.body, nextOid))
      [] q.op = "providerProducts" ->
            SetStock(q.loaded, Has(q.body, "nStock"),
                     NumberAdd(q.loaded["stock"], q.body["nStock"]))
      [] q.op = "sellProducts" ->
            SetStock(q.loaded, Has(q.body, "sStock"),
                     NumberSub(q.loaded["stock"], q.body["sStock"]))
      [] OTHER -> Hydrate(q.loaded)

\* A handler that found its product, when its save() or deleteOne() is
\* rejected: the catch answers 500 and nothing is written
WriteFails(r) ==
    /\ req[r].pc = "loaded"
    /\ req[r].loaded # Null
    /\ req[r].op = "sellProducts" => ~LessThanFive(req[r].loaded, req[r].body)
    /\ LET q == req[r]
       IN  Reply(r, q.op, q.hdr, q.id, q.body, q.loaded,
                 Caught(IF q.op # "eliminate" /\ InvalidPaths(Written(q)) # {}
                        THEN "ValidationError"
                        ELSE StorageFailure))
    /\ UNCHANGED <<now, issued, products, nextOid>>

---------------------------------------------------------------------------
(* The environment: the clock and the clients *)

Now0 == 5000

\* The instants the clock is observed at: millisecond steps from the start
\* and from one millisecond short of a token lifetime later
Instants ==
    {Now0 + a + b * (TokenLifetime - 1) : a \in 0 .. MaxFine, b \in {0, 1}}

Tick(t) ==
    /\ t \in Instants
    /\ t > now
    /\ now' = t
    /\ UNCHANGED <<issued, products, nextOid, req, resp>>

\* The client of slot r takes the response; the slot is free again
Receive(r) ==
    /\ req[r].pc = "done"
    /\ req' = [req EXCEPT ![r] = Idle]
    /\ resp' = [resp EXCEPT ![r] = NoResponse]
    /\ UNCHANGED <<now, issued, products, nextOid>>

\* No other request is being handled or waiting to be taken
Quiet(r) == \A o \in Reqs \ {r} : req[o].pc = "idle"

\* A token whose payload was changed after signing
Tampered(token) ==
    [token EXCEPT !.payload = [@ EXCEPT !.exp = @ + TokenLifetime]]

\* The same payload signed with another key
Foreign(token) == [token EXCEPT !.sig = Signature("OTHER", token.payload)]

\* What a client can put in the Authorization header
Headers ==
    {NoHeader, Header(<<NotAJwt>>)}
        \cup {Bearer(i.token) : i \in issued}
        \cup {Bearer(Tampered(i.token)) : i \in issued}
        \cup {Bearer(Foreign(i.token)) : i \in issued}

Init ==
    /\ now = Now0
    /\ issued = {}
    /\ products = {}
    /\ nextOid = 1
    /\ req = [r \in Reqs |-> Idle]
    /\ resp = [r \in Reqs |-> NoResponse]

---------------------------------------------------------------------------
(* What the clients send *)

\* The :id of a route: the _id of a document that exists or not, or the
\* product's numeric identifier
Params == {OidParam(n) : n \in ObjectIds} \cup {NumeralParam(1001)}

\* The fields every payload of a product carries
BaseBody(id, numberCategory) ==
    [id |-> id, name |-> "name", category |-> "category", price |-> 100,
     numberCategory |-> numberCategory]

\* The variant fields of a payload, under the names the API documents
VariantBody(code) ==
    CASE code = "1" -> [features |-> <<"f">>]
      [] code = "2" -> [ingredients |-> <<"i">>, weightOrVolume |-> "1kg"]
      [] code = "3" -> [specs |-> [engine |-> "v8"], modelYear |-> 2020]
      [] code = "4" ->
            [sizesAvaiable |-> <<"M">>, colors |-> <<"red">>,
             material |-> "cotton"]
      [] OTHER -> EmptyObject

ProductBody(id, code) == Merge(BaseBody(id, JsonNumber(code)), VariantBody(code))

\* Stock stays within MinStock .. MaxStock: a write that would leave the
\* range is not requested
MaxStock == 13
MaxDebt == 2
StockRange == (0 - MaxDebt) .. MaxStock

SellQuantities == {0 - 1, 0, 3, 5, 6}
RestockQuantities == {0 - 6, 3}

SellBodies == {[sStock |-> q] : q \in SellQuantities} \cup {EmptyObject}
RestockBodies == {[nStock |-> q] : q \in RestockQuantities} \cup {EmptyObject}

\* The stock a restock or sell with this body would write for :id
InRange(id, body) ==
    LET product == IF id.objectId THEN FindById(products, id.n) ELSE Null
        delta == IF Has(body, "nStock") THEN body["nStock"]
                 ELSE IF Has(body, "sStock") THEN 0 - body["sStock"]
                 ELSE 0
    IN  product # Null => (product["stock"] + delta) \in StockRange

\* The payloads of the stock scenarios: an Electronics product with a
\* stock of 10 and a Food product with the default stock
StockProductBodies ==
    {Merge(ProductBody(1001, "1"), [stock |-> 10]), ProductBody(1002, "2")}

Mails == {"user@mail", "nobody@mail"}
Passwords == {"secret", "wrong"}

---------------------------------------------------------------------------
(* Specifications *)

\* A request is taken into the lowest free slot, and only when no other
\* request is being handled
Alone(r) ==
    /\ req[r].pc = "idle"
    /\ Quiet(r)
    /\ \A o \in Reqs : o < r => req[o].pc # "idle"

\* Spec: requests handled one at a time, the clock standing still
Next ==
    \/ \E r \in Reqs : Receive(r)
    \/ \E r \in Reqs : Alone(r) /\ \E m \in Mails, p \in Passwords : loggin(r, m, p)
    \/ \E r \in Reqs : Alone(r) /\ \E h \in Headers : getAll(r, h)
    \/ \E r \in Reqs : Alone(r) /\ \E h \in Headers, i \in Params : getById(r, h, i)
    \/ \E r \in Reqs : Alone(r) /\ \E h \in Headers, b \in StockProductBodies :
          save(r, h, b)
    \/ \E r \in Reqs : Alone(r) /\ \E h \in Headers, i \in Params :
          eliminateLoad(r, h, i)
    \/ \E r \in Reqs : eliminateDelete(r)
    \/ \E r \in Reqs : Alone(r) /\
          \E h \in Headers, i \in Params, b \in StockProductBodies :
             actualizeLoad(r, h, i, b)
    \/ \E r \in Reqs : actualizeSave(r)
    \/ \E r \in Reqs : Alone(r) /\
          \E h \in Headers, i \in Params, b \in RestockBodies :
             InRange(i, b) /\ providerProductsLoad(r, h, i, b)
    \/ \E r \in Reqs : providerProductsSave(r)
    \/ \E r \in Reqs : Alone(r) /\
          \E h \in Headers, i \in Params, b \in SellBodies :
             InRange(i, b) /\ sellProductsLoad(r, h, i, b)
    \/ \E r \in Reqs : sellProductsSave(r)

Spec == Init /\ [][Next]_vars

---------------------------------------------------------------------------
(* SpecAuth: requests handled one at a time while the clock advances *)

\* A base-shape product (no case of the switch) and an Electronics product
AuthProductBodies ==
    {Merge(ProductBody(1001, "1"), [stock |-> 10]),
     Merge(ProductBody(1002, "5"), [stock |-> 10])}

AuthParams == {OidParam(1), OidParam(MaxOid + 1), NumeralParam(1001)}

NextAuth ==
    \/ \E t \in Instants : Tick(t)
    \/ \E r \in Reqs : Receive(r)
    \/ \E r \in Reqs : Alone(r) /\ \E m \in Mails, p \in Passwords : loggin(r, m, p)
    \/ \E r \in Reqs : Alone(r) /\ \E h \in Headers : getAll(r, h)
    \/ \E r \in Reqs : Alone(r) /\ \E h \in Headers, i \in AuthParams :
          getById(r, h, i)
    \/ \E r \in Reqs : Alone(r) /\ \E h \in Headers, b \in AuthProductBodies :
          save(r, h, b)
    \/ \E r \in Reqs : Alone(r) /\ \E h \in Headers, i \in AuthParams :
          eliminateLoad(r, h, i)
    \/ \E r \in Reqs : eliminateDelete(r)
    \/ \E r \in Reqs : Alone(r) /\
          \E h \in Headers, i \in AuthParams, b \in AuthProductBodies :
             actualizeLoad(r, h, i, b)
    \/ \E r \in Reqs : actualizeSave(r)
    \/ \E r \in Reqs : Alone(r) /\ \E h \in Headers, i \in AuthParams :
          InRange(i, [nStock |-> 3]) /\
          providerProductsLoad(r, h, i, [nStock |-> 3])
    \/ \E r \in Reqs : providerProductsSave(r)
    \/ \E r \in Reqs : Alone(r) /\ \E h \in Headers, i \in AuthParams :
          sellProductsLoad(r, h, i, [sStock |-> 3])
    \/ \E r \in Reqs : sellProductsSave(r)

SpecAuth == Init /\ [][NextAuth]_vars

---------------------------------------------------------------------------
(* SpecConc: requests on one stored product, handled concurrently.  Each   *)
(* slot carries one request; the handlers interleave at their awaits.      *)

InitialStock == 10

\* The document save stores for an Electronics payload with this stock
StockedProduct ==
    SaveNew(saveResolve(Merge(ProductBody(1001, "1"), [stock |-> InitialStock]), 1),
            {}).result

\* A client signed in at Now0 and the product was created
InitConc ==
    /\ now = Now0
    /\ issued = {[token |-> IssueToken("secret", Now0), at |-> Now0]}
    /\ products = {StockedProduct}
    /\ nextOid = 2
    /\ req = [r \in Reqs |-> Idle]
    /\ resp = [r \in Reqs |-> NoResponse]

ConcParams == {OidParam(1)}
ConcSellBodies == {[sStock |-> q] : q \in {0, 3, 4}}
ConcRestockBodies == {[nStock |-> q] : q \in {0 - 3, 3}}
ConcProductBodies == {Merge(ProductBody(1001, "1"), [stock |-> 8])}

NextConc ==
    \/ \E r \in Reqs, h \in Headers, i \in ConcParams : eliminateLoad(r, h, i)
    \/ \E r \in Reqs : eliminateDelete(r)
    \/ \E r \in Reqs, h \in Headers, i \in ConcParams, b \in ConcProductBodies :
          actualizeLoad(r, h, i, b)
    \/ \E r \in Reqs : actualizeSave(r)
    \/ \E r \in Reqs, h \in Headers, i \in ConcParams, b \in ConcRestockBodies :
          InRange(i, b) /\ providerProductsLoad(r, h, i, b)
    \/ \E r \in Reqs : providerProductsSave(r)
    \/ \E r \in Reqs, h \in Headers, i \in ConcParams, b \in ConcSellBodies :
          InRange(i, b) /\ sellProductsLoad(r, h, i, b)
    \/ \E r \in Reqs : sellProductsSave(r)

SpecConc == InitConc /\ [][NextConc]_vars

---------------------------------------------------------------------------
(* SpecCatalog: creates and updates with every kind of payload, handled    *)
(* one at a time, the clock standing still                                 *)

\* A payload with the variant fields of all four variants, and with the
\* size list also under the name sizesAvailable
AllVariantFields ==
    Merge(Merge(VariantBody("1"), VariantBody("2")),
          Merge(Merge(VariantBody("3"), VariantBody("4")),
                [sizesAvailable |-> <<"M">>]))

\* The variant fields sent with a category code: all of the variant's, all
\* but one, those of all variants; for Clothing also with the size list
\* named sizesAvailable
FieldsFor(code) ==
    {VariantBody(code), AllVariantFields}
        \cup {Without(VariantBody(code), {k}) : k \in DOMAIN VariantBody(code)}
        \cup (IF code = "4"
              THEN {[sizesAvailable |-> <<"M">>, colors |-> <<"red">>,
                     material |-> "cotton"]}
              ELSE {})

\* The payloads of one product identifier
CatalogBodiesOf(id) ==
    UNION {{Merge(BaseBody(id, JsonNumber(code)), f) : f \in FieldsFor(code)} :
              code \in {"1", "2", "3", "4"}}
      \cup {Merge(BaseBody(id, v), f) :
              v \in {JsonString("1"), JsonBoolean("true")},
              f \in {VariantBody("1")}}
      \cup {Merge(BaseBody(id, v), f) :
              v \in {JsonNumber("5"), JsonNumber("2.5"), JsonString("abc"),
                     JsonString("")},
              f \in {EmptyObject, AllVariantFields}}
      \cup {Without(BaseBody(id, JsonNumber("1")), {"numberCategory"})}

CatalogBodies ==
    CatalogBodiesOf(1001) \cup {ProductBody(1002, "2"), ProductBody(1002, "5")}

CatalogHeaders == {NoHeader} \cup {Bearer(i.token) : i \in issued}
CatalogParams == {OidParam(n) : n \in 1 .. MaxOid}

NextCatalog ==
    \/ \E r \in Reqs : Receive(r)
    \/ \E r \in Reqs : Alone(r) /\ \E m \in Mails, p \in Passwords : loggin(r, m, p)
    \/ \E r \in Reqs : Alone(r) /\ \E h \in CatalogHeaders : getAll(r, h)
    \/ \E r \in Reqs : Alone(r) /\ \E h \in CatalogHeaders, b \in CatalogBodies :
          save(r, h, b)
    \/ \E r \in Reqs : Alone(r) /\
          \E h \in CatalogHeaders, i \in CatalogParams, b \in CatalogBodies :
             actualizeLoad(r, h, i, b)
    \/ \E r \in Reqs : actualizeSave(r)

SpecCatalog == Init /\ [][NextCatalog]_vars

---------------------------------------------------------------------------
(* SpecIdent: creates and updates of products with two identifiers, the    *)
(* handlers interleaving at their awaits                                   *)

\* Electronics payloads of two identifiers, and a Food payload of the first
\* identifier that lacks a required field
IdentBodies ==
    {Merge(ProductBody(i, "1"), [stock |-> 10]) : i \in {1001, 1002}}
        \cup {Without(ProductBody(1001, "2"), {"weightOrVolume"})}

IdentHeaders == {Bearer(i.token) : i \in issued}
IdentParams == {OidParam(n) : n \in 1 .. MaxOid}

\* A client signed in at Now0; the collection is empty
InitIdent ==
    /\ now = Now0
    /\ issued = {[token |-> IssueToken("secret", Now0), at |-> Now0]}
    /\ products = {}
    /\ nextOid = 1
    /\ req = [r \in Reqs |-> Idle]
    /\ resp = [r \in Reqs |-> NoResponse]

NextIdent ==
    \/ \E r \in Reqs : Receive(r)
    \/ \E r \in Reqs, h \in IdentHeaders, b \in IdentBodies : save(r, h, b)
    \/ \E r \in Reqs, h \in IdentHeaders, i \in IdentParams, b \in IdentBodies :
          actualizeLoad(r, h, i, b)
    \/ \E r \in Reqs : actualizeSave(r)

SpecIdent == InitIdent /\ [][NextIdent]_vars

---------------------------------------------------------------------------
(* SpecRound: restocks and sells of one stored product, handled one after  *)
(* the other, each request and its response kept in its slot               *)

\* The stock the product starts with
RoundStocks == 3 .. 10

RoundQuantities == {0 - 6, 0 - 1, 0, 1, 3, 6, Big}
RoundRestockBodies == {[nStock |-> q] : q \in RoundQuantities}
RoundSellBodies == {[sStock |-> q] : q \in RoundQuantities}
RoundHeaders == {Bearer(i.token) : i \in issued}

\* A client signed in at Now0 and the product was created
InitRound ==
    /\ now = Now0
    /\ issued = {[token |-> IssueToken("secret", Now0), at |-> Now0]}
    /\ \E s \in RoundStocks : products = {[StockedProduct EXCEPT !["stock"] = s]}
    /\ nextOid = 2
    /\ req = [r \in Reqs |-> Idle]
    /\ resp = [r \in Reqs |-> NoResponse]

\* The stock a restock with this body would write for :id stays below 2^54
Below54(id, body) ==
    LET product == FindById(products, id.n)
    IN  product # Null => product["stock"] + body["nStock"] < Big + Big

\* The request of slot r arrives once those of the slots before it have
\* been answered
InTurn(r) ==
    /\ req[r].pc = "idle"
    /\ \A o \in Reqs : o < r => req[o].pc = "done"

NextRound ==
    \/ \E r \in Reqs : InTurn(r) /\
          \E h \in RoundHeaders, i \in ConcParams, b \in RoundRestockBodies :
             Below54(i, b) /\ providerProductsLoad(r, h, i, b)
    \/ \E r \in Reqs : providerProductsSave(r)
    \/ \E r \in Reqs : InTurn(r) /\
          \E h \in RoundHeaders, i \in ConcParams, b \in RoundSellBodies :
             sellProductsLoad(r, h, i, b)
    \/ \E r \in Reqs : sellProductsSave(r)

SpecRound == InitRound /\ [][NextRound]_vars

---------------------------------------------------------------------------
(* SpecFail: requests handled one at a time, every call to the database    *)
(* either answered or rejected                                             *)

FailHeaders == {NoHeader, Header(<<NotAJwt>>)} \cup {Bearer(i.token) : i \in issued}
FailParams == {OidParam(1), NumeralParam(1001)}
FailProductBodies == {Merge(ProductBody(1001, "1"), [stock |-> 10])}
FailSellBodies == {[sStock |-> 3]}
FailRestockBodies == {[nStock |-> 3]}

NextFail ==
    \/ \E r \in Reqs : Receive(r)
    \/ \E r \in Reqs : Alone(r) /\ \E m \in Mails, p \in Passwords : loggin(r, m, p)
    \/ \E r \in Reqs : Alone(r) /\ \E m \in Mails, p \in Passwords, e \in Escapes :
          logginLookupFails(r, m, p, e)
    \/ \E r \in Reqs : Alone(r) /\ \E h \in FailHeaders : getAll(r, h)
    \/ \E r \in Reqs : Alone(r) /\ \E h \in FailHeaders : getAllFails(r, h)
    \/ \E r \in Reqs : Alone(r) /\ \E h \in FailHeaders, i \in FailParams :
          getById(r, h, i)
    \/ \E r \in Reqs : Alone(r) /\ \E h \in FailHeaders, i \in FailParams :
          getByIdFails(r, h, i)
    \/ \E r \in Reqs : Alone(r) /\ \E h \in FailHeaders, b \in FailProductBodies :
          save(r, h, b)
    \/ \E r \in Reqs : Alone(r) /\ \E h \in FailHeaders, b \in FailProductBodies :
          saveFails(r, h, b)
    \/ \E r \in Reqs : Alone(r) /\ \E h \in FailHeaders, i \in FailParams :
          eliminateLoad(r, h, i)
    \/ \E r \in Reqs : Alone(r) /\
          \E h \in FailHeaders, i \in FailParams, b \in FailProductBodies :
             actualizeLoad(r, h, i, b)
    \/ \E r \in Reqs : Alone(r) /\
          \E h \in FailHeaders, i \in FailParams, b \in FailRestockBodies :
             InRange(i, b) /\ providerProductsLoad(r, h, i, b)
    \/ \E r \in Reqs : Alone(r) /\
          \E h \in FailHeaders, i \in FailParams, b \in FailSellBodies :
             sellProductsLoad(r, h, i, b)
    \/ \E r \in Reqs : Alone(r) /\
          \E h \in FailHeaders, i \in FailParams,
             o \in {"eliminate", "actualize", "providerProducts", "sellProducts"} :
             LoadFails(r, o, h, i, EmptyObject)
    \/ \E r \in Reqs : eliminateDelete(r)
    \/ \E r \in Reqs : actualizeSave(r)
    \/ \E r \in Reqs : providerProductsSave(r)
    \/ \E r \in Reqs : sellProductsSave(r)
    \/ \E r \in Reqs : WriteFails(r)

SpecFail == Init /\ [][NextFail]_vars

---------------------------------------------------------------------------
(* SpecDefault: products of every variant created without a stock, then    *)
(* sold, one request at a time                                             *)

\* Payloads of the four variants and of the base shape, none with a stock
DefaultBodies == {ProductBody(1001, code) : code \in {"1", "2", "3", "4", "5"}}

DefaultSellQuantities == {0 - 1, 0, 1, 44, 45, 46}
DefaultSellBodies == {[sStock |-> q] : q \in DefaultSellQuantities}

\* The stock a sell with this body would write for :id is not more than
\* one above the default
UpToDefault(id, body) ==
    LET product == FindById(products, id.n)
    IN  product # Null =>
            product["stock"] - body["sStock"] <= Defaults(BaseModel)["stock"] + 1

NextDefault ==
    \/ \E r \in Reqs : Receive(r)
    \/ \E r \in Reqs : Alone(r) /\ \E h \in IdentHeaders, b \in DefaultBodies :
          save(r, h, b)
    \/ \E r \in Reqs : Alone(r) /\
          \E h \in IdentHeaders, i \in IdentParams, b \in DefaultSellBodies :
             UpToDefault(i, b) /\ sellProductsLoad(r, h, i, b)
    \/ \E r \in Reqs : sellProductsSave(r)

SpecDefault == InitIdent /\ [][NextDefault]_vars

---------------------------------------------------------------------------
(* Properties *)

Mutating == {"save", "actualize", "eliminate", "providerProducts", "sellProducts"}

\* The request of slot r has been answered
Done(r) == req[r].pc = "done"

\* The messages of the errors jwt.verify throws
JwtMessages ==
    {"jwt must be provided", "jwt malformed", "invalid signature", "jwt expired"}

\* The handler of slot r got past the gate: it issued its database call
Proceeded(r) ==
    \/ req[r].pc = "loaded"
    \/ /\ Done(r)
       /\ resp[r].status # 401
       /\ ~(resp[r].status = 500 /\ resp[r].body["message"] \in JwtMessages)

\* The header carries, as its second part, a token loggin issued, and t is
\* within 30 minutes of its issuance
CarriesIssued(hdr) ==
    hdr.present /\ \E i \in issued : SecondPart(hdr) = i.token
IssuedAt(hdr) ==
    (CHOOSE i \in issued : SecondPart(hdr) = i.token).at
ValidAt(hdr, t) == CarriesIssued(hdr) /\ t <= IssuedAt(hdr) + 1800000
ExpiredAt(hdr, t) == CarriesIssued(hdr) /\ t > IssuedAt(hdr) + 1800000

\* C1: a sell of quantity q handled alone on a stored product answers 400
\* and leaves the stored document as it was if stock - q < 5, and otherwise
\* answers 201 and stores exactly stock - q (a result of 5 is accepted).
C1_SellFloor ==
    \A r \in Reqs :
        (/\ req[r].op = "sellProducts"
         /\ Done(r)
         /\ req[r].loaded # Null
         /\ Has(req[r].body, "sStock")) =>
            LET before == req[r].loaded
                q == req[r].body["sStock"]
                stored == FindById(products, before["_id"])
            IN  IF before["stock"] - q < 5
                THEN /\ resp[r].status = 400
                     /\ resp[r].body["state"] = FALSE
                     /\ stored = before
                ELSE /\ resp[r].status = 201
                     /\ resp[r].body["state"] = TRUE
                     /\ stored = [before EXCEPT !["stock"] = before["stock"] - q]
                     /\ resp[r].body["data"] = stored

\* A sell that leaves exactly 5 was accepted and stored
C1_Witness ==
    \E r \in Reqs :
        /\ req[r].op = "sellProducts"
        /\ Done(r)
        /\ req[r].loaded # Null
        /\ req[r].loaded["stock"] = 10
        /\ req[r].body = [sStock |-> 5]
        /\ resp[r].status = 201
        /\ FindById(products, req[r].loaded["_id"])["stock"] = 5

\* C4: validate answers true for an issued token at every instant up to
\* 30 minutes (1,800,000 ms) after its issuance and "Session Expired" at
\* every later instant; once expired, a token stays expired.
C4_Expiry(i, t) ==
    LET v == validate(Bearer(i.token), t)
    IN  IF t <= i.at + 1800000
        THEN v.kind = "true"
        ELSE v = [kind |-> "string", text |-> "Session Expired"]

C4_TokenLifetime ==
    /\ [](\A i \in issued : C4_Expiry(i, now))
    /\ [][\A i \in issued :
            validate(Bearer(i.token), now).kind = "string" =>
                validate(Bearer(i.token), now').kind = "string"]_vars

\* The clock stands exactly 30 minutes after an issuance, and later
C4_Witness ==
    \E i \in issued :
        /\ now = i.at + 1800000
        /\ validate(Bearer(i.token), now).kind = "true"
        /\ \E t \in Instants : t > now

\* C5: a mutating operation gets past the gate only with a token that is
\* valid when the handler starts; with no Authorization header, or with an
\* expired token, it answers 401 with the gate's reason as the body's error.
C5_GateGuardsMutations ==
    \A r \in Reqs :
        req[r].op \in Mutating =>
            /\ Proceeded(r) => ValidAt(req[r].hdr, req[r].at)
            /\ ~req[r].hdr.present =>
                  /\ Done(r)
                  /\ resp[r] =
                        Response(401,
                            [error |-> "The session has not been logged in or the token has not been entered."])
            /\ ExpiredAt(req[r].hdr, req[r].at) =>
                  /\ Done(r)
                  /\ resp[r] = Response(401, [error |-> "Session Expired"])

\* A sell with an expired token was answered 401
C5_Witness ==
    \E r \in Reqs :
        /\ req[r].op = "sellProducts"
        /\ ExpiredAt(req[r].hdr, req[r].at)
        /\ resp[r].status = 401
        /\ products # {}

\* C6: a mutating request whose Authorization header carries something that
\* does not verify (no second part, a tampered payload, another key) is
\* answered 401, not 500.
C6_InvalidTokenUnauthorized ==
    \A r \in Reqs :
        (/\ req[r].op \in Mutating
         /\ Done(r)
         /\ req[r].hdr.present
         /\ ~CarriesIssued(req[r].hdr)) =>
            resp[r].status = 401

C8_GetByIdNotFound ==
    \A r \in Reqs :
        (/\ req[r].op = "getById"
         /\ Done(r)
         /\ req[r].id.objectId
         /\ FindById(products, req[r].id.n) = Null) =>
            /\ resp[r].status = 404
            /\ ~(resp[r].body["state"] = TRUE /\ resp[r].body["data"] = Null)

\* The sum of the quantities of the sells that were answered 201
RECURSIVE AcceptedSold(_)
AcceptedSold(slots) ==
    IF slots = {} THEN 0
    ELSE LET r == CHOOSE x \in slots : TRUE
             q == IF /\ req[r].op = "sellProducts"
                     /\ Done(r)
                     /\ resp[r].status = 201
                  THEN req[r].body["sStock"] ELSE 0
         IN  q + AcceptedSold(slots \ {r})

\* C2: once concurrent sells on one product have all been answered, the
\* stored stock is the initial stock minus the quantities of the accepted
\* sells.
C2_NoLostSell ==
    (\A r \in Reqs : req[r].op = "sellProducts" /\ Done(r)) =>
        \A d \in products : d["stock"] = InitialStock - AcceptedSold(Reqs)

\* C3: while only sells of non-negative quantities are applied to a product
\* whose stock starts at 5 or more, the stored stock is at least 5 and so
\* is the initial stock minus the accepted quantities.
C3_FloorUnderConcurrency ==
    (/\ InitialStock >= 5
     /\ \A r \in Reqs :
           \/ req[r].pc = "idle"
           \/ /\ req[r].op = "sellProducts"
              /\ Has(req[r].body, "sStock")
              /\ req[r].body["sStock"] >= 0) =>
        /\ \A d \in products : d["stock"] >= 5
        /\ InitialStock - AcceptedSold(Reqs) >= 5

\* The handler of slot r built an instance from the payload: save got past
\* the gate, actualize found the document
Resolved(r) ==
    \/ req[r].op = "save" /\ Proceeded(r)
    \/ req[r].op = "actualize" /\ req[r].pc # "idle" /\ req[r].loaded # Null

\* The instance the handler of slot r built
InstanceOf(r) ==
    IF req[r].op = "save"
    THEN saveResolve(req[r].body, 1)
    ELSE actualizeResolve(req[r].body, 1)

\* The fields of an instance beyond the base product's
ExtraFields(inst) == (DOMAIN inst._doc) \ (BasePaths \cup {"_id", "__t"})

\* The variant table as the specification states it: code, variant,
\* required extra fields, optional extra fields
TableVariant(code) ==
    CASE code = "1" -> "Electronics"
      [] code = "2" -> "Food"
      [] code = "3" -> "Automotive"
      [] code = "4" -> "Clothing"
      [] OTHER -> "product"
TableRequired(variant) ==
    CASE variant = "Electronics" -> {"features"}
      [] variant = "Food" -> {"ingredients", "weightOrVolume"}
      [] variant = "Automotive" -> {"specs", "modelYear"}
      [] variant = "Clothing" -> {"sizesAvailable", "colors", "material"}
      [] OTHER -> {}
TableOptional(variant) ==
    CASE variant = "Electronics" -> {"warrantyYears"}
      [] variant = "Food" -> {"flavors", "expirationDays"}
      [] variant = "Automotive" -> {"warrantyYears"}
      [] OTHER -> {}

\* The table with the size list of Clothing under the name the schema and
\* the API documentation use
SchemaRequired(variant) ==
    IF variant = "Clothing" THEN {"sizesAvaiable", "colors", "material"}
    ELSE TableRequired(variant)

\* The code a payload carries as the JSON number 1, 2, 3 or 4
NumberCode(body) ==
    IF /\ Has(body, "numberCategory")
       /\ body["numberCategory"].type = "number"
       /\ body["numberCategory"].text \in {"1", "2", "3", "4"}
    THEN body["numberCategory"].text
    ELSE "other"

\* The code a payload's numberCategory is cast to: the number itself, the
\* number a string is the numeral of, 1 for true
CastCode(body) ==
    IF ~Has(body, "numberCategory") THEN "other"
    ELSE LET v == body["numberCategory"]
         IN  IF v.type \in {"number", "string"} /\ v.text \in {"1", "2", "3", "4"}
             THEN v.text
             ELSE IF v = JsonBoolean("true") THEN "1" ELSE "other"

\* C9 as stated: the JSON number 1, 2, 3, 4 selects Electronics, Food,
\* Automotive, Clothing and every other value the base shape, in create and
\* in update alike, and an instance built from a payload with the table's
\* required fields carries exactly the table's extra fields of its variant.
C9_ResolveByTable ==
    \A r \in Reqs :
        Resolved(r) =>
            LET inst == InstanceOf(r)
                variant == TableVariant(NumberCode(req[r].body))
            IN  /\ ModelOf(inst._doc) = variant
                /\ TableRequired(variant) \subseteq DOMAIN req[r].body =>
                      ExtraFields(inst) =
                          TableRequired(variant) \cup TableOptional(variant)

\* C9, amended: the value numberCategory is cast to selects the variant
\* (the string "1" and true select Electronics like the number 1), in
\* create and in update alike; the instance carries no extra field outside
\* its variant's schema, every such field of the payload with the payload's
\* value, and all of them when the payload gives the required ones, where
\* the size list of Clothing is named sizesAvaiable.
C9_ResolveByCast ==
    \A r \in Reqs :
        Resolved(r) =>
            LET inst == InstanceOf(r)
                body == req[r].body
                variant == TableVariant(CastCode(body))
                table == SchemaRequired(variant) \cup TableOptional(variant)
            IN  /\ ModelOf(inst._doc) = variant
                /\ saveResolve(body, 1) = actualizeResolve(body, 1)
                /\ ExtraFields(inst) \subseteq table
                /\ \A f \in table \cap DOMAIN body : inst._doc[f] = body[f]
                /\ SchemaRequired(variant) \subseteq DOMAIN body =>
                      ExtraFields(inst) = table

\* An update resolved a Clothing payload whose code is 4 while the store
\* holds a product that was resolved to Electronics
C9_Witness ==
    \E r \in Reqs :
        /\ req[r].op = "actualize"
        /\ Done(r)
        /\ req[r].loaded # Null
        /\ req[r].body = ProductBody(1001, "4")
        /\ ModelOf(InstanceOf(r)._doc) = "Clothing"
        /\ \E d \in products : ModelOf(d) = "Electronics"

\* C10: a create or an update whose payload carries code 1-4 and omits a
\* field the table requires of that variant fails with a ValidationError,
\* and an update leaves the stored document as it was.
C10_MissingRequiredRejected ==
    \A r \in Reqs :
        (/\ Resolved(r)
         /\ Done(r)
         /\ NumberCode(req[r].body) # "other"
         /\ ~(TableRequired(TableVariant(NumberCode(req[r].body)))
                \subseteq DOMAIN req[r].body)) =>
            /\ resp[r] = Caught("ValidationError")
            /\ req[r].op = "actualize" =>
                  FindById(products, req[r].loaded["_id"]) = req[r].loaded

\* The numerals of the four category codes
VariantCodes == {"1", "2", "3", "4"}

\* C11: every stored product whose numberCategory is 1, 2, 3 or 4 is of the
\* variant the table gives that code (Electronics, Food, Automotive,
\* Clothing), also after an update whose payload carries another code.
C11_VariantMatchesCode ==
    \A d \in products :
        (Has(d, "numberCategory") /\ d["numberCategory"] \in VariantCodes) =>
            ModelOf(d) = TableVariant(d["numberCategory"])

DuplicateKey == "E11000 duplicate key error"

\* A step in which the handler of slot r answers a create
Creates(r) == req[r].pc = "idle" /\ req'[r].pc = "done" /\ req'[r].op = "save"

\* A step in which the handler of slot r, having found the document, answers
\* an update
Updates(r) ==
    /\ req[r].pc = "loaded"
    /\ req[r].op = "actualize"
    /\ req[r].loaded # Null
    /\ req'[r].pc = "done"

\* The identifier a payload carries is that of a stored product other than
\* the one of this _id
Collides(body, oid) ==
    /\ Has(body, "id")
    /\ \E d \in products : d["_id"] # oid /\ d["id"] = body["id"]

\* C12: no two stored products have the same identifier, however creates
\* and updates interleave; an authorized create, or an update that changes
\* the identifier of the product it loaded, whose identifier is that of
\* another stored product is not answered with success and leaves the
\* collection as it was, and fails with the duplicate-key error when its
\* payload is otherwise valid.
C12_IdentifierUnique ==
    /\ [](\A d \in products, e \in products : d["id"] = e["id"] => d = e)
    /\ [][\A r \in Reqs :
            /\ (/\ Creates(r)
                /\ IsTrue(validate(req'[r].hdr, now))
                /\ Collides(req'[r].body, 0)) =>
                  /\ products' = products
                  /\ resp'[r].status = 500
                  /\ InvalidPaths(saveResolve(req'[r].body, nextOid)) = {} =>
                        resp'[r] = Caught(DuplicateKey)
            /\ (/\ Updates(r)
                /\ Collides(req[r].body, req[r].loaded["_id"])
                /\ req[r].body["id"] # req[r].loaded["id"]) =>
                  /\ products' = products
                  /\ resp'[r].status = 500
                  /\ InvalidPaths(Overwrite(Hydrate(req[r].loaded),
                                            actualizeResolve(req[r].body, nextOid)))
                        = {} =>
                        resp'[r] = Caught(DuplicateKey)]_vars

\* A create and an update were both refused for a duplicate identifier
C12_Witness ==
    /\ Cardinality(products) = 2
    /\ \E r \in Reqs :
          req[r].op = "save" /\ Done(r) /\ resp[r] = Caught(DuplicateKey)
    /\ \E r \in Reqs :
          req[r].op = "actualize" /\ Done(r) /\ resp[r] = Caught(DuplicateKey)

\* C13: after a successful update the stored record is the instance
\* resolved from the payload, field for field (under the record's own
\* _id): a field the payload omits holds its default, and nothing of the
\* old record survives.
C13_UpdateReplaces ==
    \A r \in Reqs :
        (req[r].op = "actualize" /\ Done(r) /\ resp[r].status = 201) =>
            LET inst == actualizeResolve(req[r].body, 1)._doc
                stored == FindById(products, req[r].loaded["_id"])
            IN  Without(stored, {"_id"}) = Without(inst, {"_id"})

\* The handlers that load the product of :id before they write
Loading == {"actualize", "eliminate", "providerProducts", "sellProducts"}

\* A step in which the handler of slot r starts
Starts(r) == req[r].pc = "idle" /\ req'[r].pc # "idle"

\* The :id is the _id, or the numeric identifier, of a stored product
Matches(id) ==
    IF id.objectId
    THEN FindById(products, id.n) # Null
    ELSE \E d \in products : d["id"] = id.n

\* C14: an update, delete, restock or sell with a valid token and an :id
\* that matches no stored product is answered 404 with state false, whatever
\* the body (for a sell: whatever the quantity), and the collection is left
\* as it was.
C14_MissingIsNotFound ==
    [][\A r \in Reqs :
          /\ (/\ Starts(r)
              /\ req'[r].op \in Loading
              /\ IsTrue(validate(req'[r].hdr, now))
              /\ ~Matches(req'[r].id)) =>
                /\ products' = products
                /\ req'[r].pc = "loaded" => req'[r].loaded = Null
                /\ req'[r].pc = "done" => resp'[r].status = 404
          /\ (/\ req[r].pc = "loaded"
              /\ req[r].op \in Loading
              /\ req[r].loaded = Null
              /\ req'[r].pc = "done") =>
                /\ products' = products
                /\ resp'[r].status = 404
                /\ resp'[r].body["state"] = FALSE]_vars

\* The document of this _id was created and has been removed: _ids are
\* generated in order and never again
Removed(n) == n < nextOid /\ FindById(products, n) = Null

\* C15: a delete of a stored product, handled alone, removes that document
\* and no other and answers 200 with a removed count of 1; from then on the
\* document stays absent (also when products are created), no getAll lists
\* it, and every update, delete, restock or sell of that :id with a valid
\* token is answered 404.
C15_DeleteRemoves ==
    /\ [](\A r \in Reqs :
            (req[r].op = "getAll" /\ Done(r)) =>
                \A d \in resp[r].body["data"].items : ~Removed(d["_id"]))
    /\ [][\A r \in Reqs :
            /\ (/\ req[r].pc = "loaded"
                /\ req[r].op = "eliminate"
                /\ req[r].loaded # Null
                /\ req'[r].pc = "done") =>
                  /\ products' = products \ {req[r].loaded}
                  /\ Cardinality(products') = Cardinality(products) - 1
                  /\ resp'[r] =
                        Response(200,
                            [state |-> TRUE,
                             data |-> [acknowledged |-> TRUE, deletedCount |-> 1]])
            /\ \A n \in ObjectIds : Removed(n) => FindById(products', n) = Null
            /\ (/\ Starts(r)
                /\ req'[r].op \in Loading
                /\ IsTrue(validate(req'[r].hdr, now))
                /\ req'[r].id.objectId
                /\ Removed(req'[r].id.n)) =>
                  /\ req'[r].pc = "loaded"
                  /\ req'[r].loaded = Null
            /\ (/\ req[r].pc = "loaded"
                /\ req[r].id.objectId
                /\ Removed(req[r].id.n)
                /\ req'[r].pc = "done") =>
                  /\ products' = products
                  /\ resp'[r].status = 404]_vars

\* After a delete and a later create, a sell of the removed :id was
\* answered 404
C15_Witness ==
    \E r \in Reqs :
        /\ req[r].op = "sellProducts"
        /\ Done(r)
        /\ req[r].id.objectId
        /\ Removed(req[r].id.n)
        /\ resp[r].status = 404
        /\ \E d \in products : d["_id"] > req[r].id.n

\* C16: a restock of a stored product by a quantity q, negative, zero or
\* positive, answers 201 and stores exactly the Number stock + q, with no
\* floor test: the result may be below 5 and below 0.
C16_RestockAdds ==
    [][\A r \in Reqs :
          (/\ req[r].pc = "loaded"
           /\ req[r].op = "providerProducts"
           /\ req[r].loaded # Null
           /\ Has(req[r].body, "nStock")
           /\ req'[r].pc = "done") =>
              LET before == req[r].loaded
                  after == [before EXCEPT
                               !["stock"] = NumberAdd(before["stock"],
                                                      req[r].body["nStock"])]
              IN  /\ resp'[r] = Response(201, [state |-> TRUE, data |-> after])
                  /\ products' = (products \ {before}) \cup {after}]_vars

\* A restock by -6 was accepted and left a negative stock
C16_Witness ==
    \E r \in Reqs :
        /\ req[r].op = "providerProducts"
        /\ Done(r)
        /\ req[r].body = [nStock |-> 0 - 6]
        /\ resp[r].status = 201
        /\ resp[r].body["data"]["stock"] < 0
        /\ \E d \in products : d["stock"] < 0

\* Slot r holds an answered restock and the next slot an answered sell of
\* the same quantity q >= 0 on the same product, which had a stock of at
\* least 5 before the restock
RoundTrip(r) ==
    /\ r + 1 \in Reqs
    /\ req[r].op = "providerProducts" /\ Done(r)
    /\ req[r + 1].op = "sellProducts" /\ Done(r + 1)
    /\ req[r].id = req[r + 1].id
    /\ req[r].loaded # Null
    /\ req[r].loaded["stock"] >= 5
    /\ req[r].body["nStock"] >= 0
    /\ req[r + 1].body["sStock"] = req[r].body["nStock"]

\* What a round trip in slots r and r + 1 is to give: both answered 201 and
\* the stock back at s
RoundTripHolds(r) ==
    LET s == req[r].loaded["stock"]
    IN  /\ resp[r].status = 201
        /\ resp[r + 1].status = 201
        /\ resp[r + 1].body["data"]["stock"] = s
        /\ (\A o \in Reqs : o > r + 1 => req[o].pc = "idle") =>
              FindById(products, req[r].id.n) =
                  [req[r].loaded EXCEPT !["stock"] = s]

\* C17 as stated: a restock by any q >= 0 of a product with stock s >= 5,
\* followed by a sell of q with no request in between, both answer 201 and
\* leave the stored stock at s.
C17_RoundTrip == \A r \in Reqs : RoundTrip(r) => RoundTripHolds(r)

\* C17, amended: the round trip holds whenever the sum s + q is itself a
\* Number, that is, when the restock computes it without rounding.
C17_RoundTripExact ==
    \A r \in Reqs :
        (/\ RoundTrip(r)
         /\ NumberAdd(req[r].loaded["stock"], req[r].body["nStock"]) =
               req[r].loaded["stock"] + req[r].body["nStock"]) =>
            RoundTripHolds(r)

\* A product with a stock of exactly 5 was restocked and sold by 6
C17_Witness ==
    \E r \in Reqs :
        /\ RoundTrip(r)
        /\ req[r].loaded["stock"] = 5
        /\ req[r].body["nStock"] = 6
        /\ FindById(products, req[r].id.n)["stock"] = 5

\* C18: a sign-in with a mail no user has answers 403, one with a user's
\* mail and another password than the stored one answers 404, both with
\* state false and a null token; one with a user's mail and password answers
\* 200 with state true and a token that verifies; and a token is issued only
\* in a step that answers a sign-in with 200.
C18_SigninOutcomes ==
    /\ [](\A r \in Reqs :
            (req[r].op = "loggin" /\ Done(r)) =>
                LET mail == req[r].body["mail"]
                    password == req[r].body["password"]
                    known == \E u \in Users : u.mail = mail
                    matches == \E u \in Users :
                                  u.mail = mail /\ u.password = password
                IN  /\ ~known =>
                          /\ resp[r].status = 403
                          /\ resp[r].body["state"] = FALSE
                          /\ resp[r].body["token"] = Null
                    /\ (known /\ ~matches) =>
                          /\ resp[r].status = 404
                          /\ resp[r].body["state"] = FALSE
                          /\ resp[r].body["token"] = Null
                    /\ matches =>
                          /\ resp[r].status = 200
                          /\ resp[r].body["state"] = TRUE
                          /\ resp[r].body["token"] # Null
                          /\ JwtVerify(resp[r].body["token"], key, req[r].at).ok)
    /\ [][issued' # issued =>
            \E r \in Reqs :
                /\ Starts(r)
                /\ req'[r].op = "loggin"
                /\ resp'[r].status = 200
                /\ issued' = issued \cup {[token |-> resp'[r].body["token"],
                                           at |-> now]}]_vars

\* After a successful sign-in, one with the wrong password was refused
C18_Witness ==
    /\ issued # {}
    /\ \E r \in Reqs :
          /\ req[r].op = "loggin"
          /\ Done(r)
          /\ req[r].body = [mail |-> "user@mail", password |-> "wrong"]
          /\ resp[r].status = 404

\* C19: the body of every response, of every endpoint and on every path,
\* carries a boolean state together with data, a message or an error.
C19_ResponseShape ==
    \A r \in Reqs :
        Done(r) =>
            /\ Has(resp[r].body, "state")
            /\ resp[r].body["state"] \in BOOLEAN
            /\ \E k \in {"data", "message", "error"} : Has(resp[r].body, k)

\* The handler of slot r has returned, or its promise was rejected
Ended(r) == req[r].pc \in {"done", "rejected"}

\* C20: every request whose handler has ended was answered, also when a
\* call to the database or the verification of the token failed, and an
\* answer of 500 is the handler's own: state false with a message or an
\* error.
C20_EveryRequestAnswered ==
    \A r \in Reqs :
        Ended(r) =>
            /\ resp[r] # NoResponse
            /\ resp[r].status = 500 =>
                  /\ Has(resp[r].body, "state")
                  /\ resp[r].body["state"] = FALSE
                  /\ Has(resp[r].body, "message") \/ Has(resp[r].body, "error")

\* The stored product whose numeric identifier is the :id of slot r
Designated(r) == {d \in products : ~req[r].id.objectId /\ d["id"] = req[r].id.n}

\* C21: the :id of a request is the numeric identifier of a product: a
\* getById of the identifier of a stored product answers 200 with that
\* product, and a sell of it with a valid token is decided on that product
\* (201 or 400), neither failing to find it.
C21_IdIsIdentifier ==
    \A r \in Reqs :
        (Done(r) /\ Designated(r) # {}) =>
            /\ req[r].op = "getById" =>
                  /\ resp[r].status = 200
                  /\ resp[r].body["data"] \in Designated(r)
            /\ (req[r].op = "sellProducts" /\ ValidAt(req[r].hdr, req[r].at)) =>
                  resp[r].status \in {201, 400}

\* C22: a create whose payload has no stock stores the product, whatever
\* its variant, with a stock of 50; and a sell of q that finds the stock at
\* 50 is answered 201 exactly when q <= 45.
C22_DefaultStock ==
    [][\A r \in Reqs :
          /\ (/\ Creates(r)
              /\ ~Has(req'[r].body, "stock")
              /\ resp'[r].status = 201) =>
                /\ resp'[r].body["data"]["stock"] = 50
                /\ resp'[r].body["data"] \in products'
                /\ products' = products \cup {resp'[r].body["data"]}
          /\ (/\ req[r].pc = "loaded"
              /\ req[r].op = "sellProducts"
              /\ req[r].loaded # Null
              /\ req[r].loaded["stock"] = 50
              /\ req'[r].pc = "done") =>
                (resp'[r].status = 201 <=> req[r].body["sStock"] <= 45)]_vars

\* A Clothing product created without a stock was sold by 45 and is stored
\* with a stock of 5
C22_Witness ==
    \E r \in Reqs :
        /\ req[r].op = "sellProducts"
        /\ Done(r)
        /\ req[r].body = [sStock |-> 45]
        /\ req[r].loaded # Null
        /\ ModelOf(req[r].loaded) = "Clothing"
        /\ req[r].loaded["stock"] = 50
        /\ resp[r].status = 201
        /\ FindById(products, req[r].loaded["_id"])["stock"] = 5

\* C23: a mutating request with no Authorization header or an expired token
\* is answered 401 at once, whether or not the product exists and whatever
\* the body; with a valid token and an :id that matches no stored product
\* the handler finds nothing and answers 404, whatever the quantity; and a
\* 400 is answered only by a sell with a valid token that found its product.
C23_CheckOrder ==
    [][\A r \in Reqs :
          /\ (/\ Starts(r)
              /\ req'[r].op \in Mutating
              /\ ~req'[r].hdr.present \/ ExpiredAt(req'[r].hdr, now)) =>
                /\ req'[r].pc = "done"
                /\ resp'[r].status = 401
                /\ products' = products
          /\ (/\ Starts(r)
              /\ req'[r].op \in Loading
              /\ ValidAt(req'[r].hdr, now)
              /\ ~Matches(req'[r].id)) =>
                /\ req'[r].pc = "loaded"
                /\ req'[r].loaded = Null
          /\ (/\ req[r].pc = "loaded"
              /\ req[r].loaded = Null
              /\ req'[r].pc = "done") =>
                resp'[r].status = 404
          /\ (/\ req[r].pc # "done"
              /\ req'[r].pc = "done"
              /\ resp'[r].status = 400) =>
                /\ req'[r].op = "sellProducts"
                /\ ValidAt(req'[r].hdr, req'[r].at)
                /\ req'[r].loaded # Null]_vars

\* C24: a create, update, delete, restock or sell whose Authorization
\* header is missing, or carries an expired token or anything that fails
\* verification, is answered in the step it starts, before any find, save
\* or delete is issued: no document is awaited or loaded, no _id is used
\* up, and the collection is left as it was.
C24_UnauthorizedTouchesNothing ==
    [][\A r \in Reqs :
          (/\ Starts(r)
           /\ req'[r].op \in Mutating
           /\ ~ValidAt(req'[r].hdr, now)) =>
              /\ products' = products
              /\ nextOid' = nextOid
              /\ req'[r].pc = "done"
              /\ req'[r].loaded = Null
              /\ \/ resp'[r].status = 401
                 \/ /\ resp'[r].status = 500
                    /\ resp'[r].body["message"] \in JwtMessages]_vars

\* An update of a stored product with a tampered token was refused, and an
\* expired token is at hand
C24_Witness ==
    \E r \in Reqs :
        /\ req[r].op = "actualize"
        /\ Done(r)
        /\ req[r].hdr.present
        /\ ~CarriesIssued(req[r].hdr)
        /\ req[r].id.objectId
        /\ FindById(products, req[r].id.n) # Null
        /\ resp[r].status = 500
        /\ \E i \in issued : now > i.at + 1800000

\* The handlers that read and never write
Reading == {"getAll", "getById", "loggin"}

\* C25: a restock or a sell that is answered 201 leaves the collection as
\* it was but for the stock of the product it loaded: that product keeps
\* its _id, identifier, name, category, numberCategory, price, variant and
\* variant fields, every other product is as it was, and none is added or
\* removed; getAll, getById and loggin never change the collection.
C25_OnlyStockChanges ==
    [][\A r \in Reqs :
          /\ (/\ req[r].pc = "loaded"
              /\ req[r].op \in {"providerProducts", "sellProducts"}
              /\ req'[r].pc = "done"
              /\ resp'[r].status = 201) =>
                LET oid == req[r].loaded["_id"]
                    before == FindById(products, oid)
                    after == FindById(products', oid)
                IN  /\ before # Null
                    /\ after # Null
                    /\ after = [before EXCEPT !["stock"] = after["stock"]]
                    /\ products' \ {after} = products \ {before}
                    /\ Cardinality(products') = Cardinality(products)
          /\ (Starts(r) /\ req'[r].op \in Reading) =>
                /\ products' = products
                /\ nextOid' = nextOid]_vars

\* A sell changed the stock of one of two stored products of different
\* variants
C25_Witness ==
    \E r \in Reqs :
        /\ req[r].op = "sellProducts"
        /\ Done(r)
        /\ resp[r].status = 201
        /\ req[r].loaded # Null
        /\ resp[r].body["data"]["stock"] # req[r].loaded["stock"]
        /\ resp[r].body["data"] \in products
        /\ \E d \in products : ModelOf(d) # ModelOf(req[r].loaded)

\* C26: a sell that is answered 201 leaves the stored stock no higher than
\* the stock it found, whatever the quantity: positive, zero or negative.
C26_SellNeverRaises ==
    \A r \in Reqs :
        (/\ req[r].op = "sellProducts"
         /\ Done(r)
         /\ resp[r].status = 201) =>
            /\ resp[r].body["data"]["stock"] <= req[r].loaded["stock"]
            /\ \A d \in products :
                  d["_id"] = req[r].loaded["_id"] =>
                      d["stock"] <= req[r].loaded["stock"]

\* C27: when one restock by n and one sell of s on the same product have
\* both been answered 201, however their loads and saves interleaved, the
\* stored stock is the initial stock + n - s.
C27_NoLostRestock ==
    \A r \in Reqs, o \in Reqs :
        (/\ req[r].op = "providerProducts" /\ Done(r) /\ resp[r].status = 201
         /\ req[o].op = "sellProducts" /\ Done(o) /\ resp[o].status = 201) =>
            \A d \in products :
                d["stock"] =
                    InitialStock + req[r].body["nStock"] - req[o].body["sStock"]

\* The deletes that were answered 200
Deleted == {r \in Reqs : req[r].op = "eliminate" /\ Done(r) /\ resp[r].status = 200}

\* The sum of the removed counts the deletes of these slots reported
RECURSIVE RemovedCount(_)
RemovedCount(slots) ==
    IF slots = {} THEN 0
    ELSE LET r == CHOOSE x \in slots : TRUE
         IN  resp[r].body["data"].deletedCount + RemovedCount(slots \ {r})

\* C28: however the loads and removes of concurrent deletes of one stored
\* product interleave, the removed counts they report sum to exactly 1 as
\* soon as one of them has been answered 200, and the product is then gone;
\* a delete that reports a count of 0 had loaded the product, and another
\* delete, which reports a count of 1, removed it in between.
C28_RemovedOnce ==
    /\ Deleted # {} =>
          /\ RemovedCount(Deleted) = 1
          /\ products = {}
    /\ \A r \in Deleted :
          resp[r].body["data"].deletedCount = 0 =>
              /\ req[r].loaded # Null
              /\ \E o \in Deleted \ {r} :
                    /\ req[o].loaded["_id"] = req[r].loaded["_id"]
                    /\ resp[o].body["data"].deletedCount = 1

\* Two deletes both loaded the product; one reports 1 and the other 0
C28_Witness ==
    \E r \in Deleted, o \in Deleted :
        /\ resp[r].body["data"].deletedCount = 1
        /\ resp[o].body["data"].deletedCount = 0
        /\ products = {}

\* The _ids of the stored documents
StoredIds == {d["_id"] : d \in products}

\* C29: the step in which an update is answered leaves the number of
\* stored products and their _ids as they were and uses up no _id: no
\* record is created from the instance built out of the payload.  After a
\* successful update the :id resolves to exactly one record, the one it
\* resolved to before, now holding the payload's values of the base fields.
C29_UpdateInPlace ==
    [][\A r \in Reqs :
          (/\ req[r].pc = "loaded"
           /\ req[r].op = "actualize"
           /\ req'[r].pc = "done") =>
              /\ Cardinality(products') = Cardinality(products)
              /\ {d["_id"] : d \in products'} = StoredIds
              /\ nextOid' = nextOid
              /\ resp'[r].status = 201 =>
                    LET oid == req[r].id.n
                        inst == actualizeResolve(req[r].body, nextOid)
                    IN  /\ req[r].loaded["_id"] = oid
                        /\ Cardinality({d \in products' : d["_id"] = oid}) = 1
                        /\ resp'[r].body["data"]["_id"] = oid
                        /\ Only(FindById(products', oid), BasePaths) =
                              Only(inst._doc, BasePaths)
                        /\ products' \ {FindById(products', oid)} =
                              products \ {req[r].loaded}]_vars

\* An update gave one of two stored products another category code
C29_Witness ==
    \E r \in Reqs :
        /\ req[r].op = "actualize"
        /\ Done(r)
        /\ resp[r].status = 201
        /\ Cardinality(products) = 2
        /\ FindById(products, req[r].id.n)["numberCategory"] #
              req[r].loaded["numberCategory"]
        /\ FindById(products, req[r].id.n)["id"] = req[r].loaded["id"]

\* The _ids whose delete was answered with a removed count of 1
Gone ==
    {req[r].loaded["_id"] :
        r \in {d \in Deleted : resp[d].body["data"].deletedCount = 1}}

\* The handlers that load a product and later save it
Saving == {"actualize", "providerProducts", "sellProducts"}

\* C30: a product whose delete was answered with a removed count of 1 is
\* absent from then on; an update, restock or sell that had loaded it
\* before the delete and answers after it leaves the collection as it was
\* and is not answered with success (a save it attempts fails with
\* DocumentNotFoundError), in whatever order such requests come to save.
C30_NoResurrection ==
    /\ [](\A n \in Gone : FindById(products, n) = Null)
    /\ [][\A r \in Reqs :
            (/\ req[r].pc = "loaded"
             /\ req[r].op \in Saving
             /\ req[r].loaded # Null
             /\ req[r].loaded["_id"] \in Gone
             /\ req'[r].pc = "done") =>
                /\ products' = products
                /\ resp'[r].status \notin {200, 201}
                /\ resp'[r].body["state"] = FALSE
                /\ resp'[r].status = 500 =>
                      resp'[r].body["message"] \in
                          {"DocumentNotFoundError", "ValidationError"}]_vars

\* A restock that had loaded the product before it was deleted was answered
\* with DocumentNotFoundError
C30_Witness ==
    \E r \in Reqs :
        /\ req[r].op = "providerProducts"
        /\ Done(r)
        /\ req[r].loaded # Null
        /\ req[r].loaded["_id"] \in Gone
        /\ resp[r] = Caught("DocumentNotFoundError")
        /\ products = {}
====
